---- MODULE Spec2Model ----
(***************************************************************************)
(* A model of the syringe dependency-injection container: the Container    *)
(* that accumulates registrations (container.go) and the InjectionProvider *)
(* that resolves them (provider.go).  provider.go exists in two builds:    *)
(* package syringe (lines 1-254) and package main (lines 256-491).  They   *)
(* differ in GetService and injectDependencies; the variable pkg says      *)
(* which build runs.                                                       *)
(*                                                                         *)
(* Every goroutine that calls GetService is a thread with an explicit call *)
(* stack (frames).  One step of a thread is one of: the call of            *)
(* GetService, the acquisition of p.mu, the head of resolveService (cycle  *)
(* check, push, cache probe, lookup, dispatch), one round of               *)
(* injectDependencies' loop, or the return of GetService.                  *)
(***************************************************************************)
EXTENDS Integers, Sequences, FiniteSets, TLC

\* ---------------------------------------------------------------- bounds
MaxRegs == 2        \* registrations added to the Container
MaxScopes == 1      \* scopes created when the registrations vary
MaxEngines == 3     \* the root and the scopes created from it
MaxCalls == 2       \* top-level GetService calls
MaxThreads == 2     \* goroutines calling GetService concurrently

Engines == 1..MaxEngines
Threads == 1..MaxThreads

\* ------------------------------------------------- inputs (the fixtures)
\* contract identities (reflect.Type of an interface)
Contracts == {"A", "B", "C"}

Lifetimes == {"Transient", "Scoped", "Singleton"}

\* what a caller can pass as implementation: nil, a pointer to a struct
\* (the blueprint of the contract), or a value that is no pointer to struct
Implementations == {"nil", "ptrStruct", "nonStruct"}

\* what a caller can pass as factory: func(*InjectionProvider) (T, error),
\* or a function of another shape
Factories == {"ok", "badShape"}

\* The blueprint struct registered for each contract:
\*   implA { B IB; n int; C IC }    implB { C IC; a IA }    implC { A IA }
\* kind is the reflect.Kind of the field type, exported is CanSet().
Field(kind, exported, typ) == [kind |-> kind, exported |-> exported, typ |-> typ]

StructFields(c) ==
    CASE c = "A" -> << Field("Interface", TRUE, "B"), Field("Int", TRUE, "-"),
                       Field("Interface", TRUE, "C") >>
      [] c = "B" -> << Field("Interface", TRUE, "C"), Field("Interface", FALSE, "A") >>
      [] c = "C" -> << Field("Interface", TRUE, "A") >>
      [] OTHER   -> << >>

\* ---------------------------------------------------------------- values
\* A value is the address of an object: << n, k >> is the k-th object made
\* during the n-th top-level call, << 0, i >> the instance the caller built
\* for the i-th registration.
Nil == << 0, 0 >>        \* the nil interface value, an unset field
NoEntry == << -1, 0 >>   \* the key is absent from a cache map

\* errors: kind "nil" is a nil error; typ is the contract identity the
\* message names ("-" when it names none), path the resolution path it lists
NoErr == [kind |-> "nil", typ |-> "-", path |-> << >>]
Err(kind, typ, path) == [kind |-> kind, typ |-> typ, path |-> path]

\* the (instance, error) pair a call returns; set says that a callee has
\* returned it to this frame and the frame has not consumed it yet
NoRes == [set |-> FALSE, val |-> Nil, err |-> NoErr]
Res(val, err) == [set |-> TRUE, val |-> val, err |-> err]

VARIABLES
    pkg,              \* "syringe" or "main": the build of provider.go
    containerRegs,    \* Container.registrations
    built,            \* BuildServiceProvider has run
    nEngines,         \* number of InjectionProviders that exist
    root,             \* InjectionProvider.root
    parent,           \* the engine CreateScope was called on (0 for the root)
    registrations,    \* InjectionProvider.registrations
    singletonCache,   \* the map made by BuildServiceProvider, by its owner
    scopedCache,      \* InjectionProvider.scopedCache
    resolutionStack,  \* InjectionProvider.resolutionStack
    mu,               \* InjectionProvider.mu: the thread holding it, or 0
    heap,             \* the objects that exist, by address
    frames,           \* the call stack of each thread
    eng,              \* the engine each thread called GetService on
    callNo,           \* the number of the top-level call each thread runs
    calls,            \* top-level GetService calls started
    hist,             \* the top-level calls that returned (kept: the call
                      \* changed no cache)
    runs              \* times a factory or blueprint was run, per contract

vars == << pkg, containerRegs, built, nEngines, root, parent, registrations,
           singletonCache, scopedCache, resolutionStack, mu, heap, frames,
           eng, callNo, calls, hist, runs >>

containerVars == << containerRegs >>
engineVars == << nEngines, root, parent, registrations >>
cacheVars == << singletonCache, scopedCache >>
threadVars == << frames, eng, callNo, calls >>
ghostVars == << hist, runs >>

EmptyCache == [c \in Contracts |-> NoEntry]

\* ------------------------------------------------------------- Container
DependencyRegistration(serviceType, implementation, factory, instance, lifetime) ==
    [ServiceType |-> serviceType, Implementation |-> implementation,
     Factory |-> factory, Instance |-> instance, Lifetime |-> lifetime]

ZeroFields(c) == [i \in 1..Len(StructFields(c)) |-> Nil]

\* an object on the heap: the contract it was made for, how it was made,
\* the index of the registration and the engine that made it, its fields,
\* and for each field the error of the resolution injectDependencies tried
\* for it ("untried" when it tried none)
Object(typ, how, reg, e, fields) ==
    [typ |-> typ, how |-> how, reg |-> reg, eng |-> e, fields |-> fields,
     tried |-> [i \in 1..Len(fields) |-> "untried"]]

\* the address of the next object thread t allocates
NewId(t) == << callNo[t], 1 + Cardinality({i \in DOMAIN heap : i[1] = callNo[t]}) >>

addService(serviceType, implementation, factory, instance, lifetime) ==
    containerRegs' = Append(containerRegs,
        DependencyRegistration(serviceType, implementation, factory, instance, lifetime))

AddSingleton(serviceType, implementation) ==
    /\ addService(serviceType, implementation, "nil", Nil, "Singleton")
    /\ UNCHANGED << pkg, built, engineVars, cacheVars, resolutionStack, mu, heap,
                    threadVars, ghostVars >>

AddSingletonByFactory(serviceType, factory) ==
    /\ addService(serviceType, "nil", factory, Nil, "Singleton")
    /\ UNCHANGED << pkg, built, engineVars, cacheVars, resolutionStack, mu, heap,
                    threadVars, ghostVars >>

\* the caller built the instance before registering it: a new *implX with
\* no field set
AddSingletonInstance(serviceType) ==
    /\ addService(serviceType, "nil", "nil", << 0, Len(containerRegs) + 1 >>, "Singleton")
    /\ heap' = (<< 0, Len(containerRegs) + 1 >> :>
                    Object(serviceType, "instance", Len(containerRegs) + 1, 0,
                           ZeroFields(serviceType))) @@ heap
    /\ UNCHANGED << pkg, built, engineVars, cacheVars, resolutionStack, mu,
                    threadVars, ghostVars >>

AddScoped(serviceType, implementation) ==
    /\ addService(serviceType, implementation, "nil", Nil, "Scoped")
    /\ UNCHANGED << pkg, built, engineVars, cacheVars, resolutionStack, mu, heap,
                    threadVars, ghostVars >>

AddScopedByFactory(serviceType, factory) ==
    /\ addService(serviceType, "nil", factory, Nil, "Scoped")
    /\ UNCHANGED << pkg, built, engineVars, cacheVars, resolutionStack, mu, heap,
                    threadVars, ghostVars >>

AddTransient(serviceType, implementation) ==
    /\ addService(serviceType, implementation, "nil", Nil, "Transient")
    /\ UNCHANGED << pkg, built, engineVars, cacheVars, resolutionStack, mu, heap,
                    threadVars, ghostVars >>

AddTransientByFactory(serviceType, factory) ==
    /\ addService(serviceType, "nil", factory, Nil, "Transient")
    /\ UNCHANGED << pkg, built, engineVars, cacheVars, resolutionStack, mu, heap,
                    threadVars, ghostVars >>

\* --------------------------------------------------------------- engines
\* the provider built is engine 1, the root of the scope tree
BuildServiceProvider ==
    /\ built' = TRUE
    /\ nEngines' = 1
    /\ root' = [root EXCEPT ![1] = 1]
    /\ registrations' = [registrations EXCEPT ![1] = containerRegs]
    /\ singletonCache' = [singletonCache EXCEPT ![1] = EmptyCache]
    /\ scopedCache' = [scopedCache EXCEPT ![1] = EmptyCache]
    /\ UNCHANGED << pkg, containerRegs, parent, resolutionStack, mu, heap,
                    threadVars, ghostVars >>

\* CreateScope with the new scope as its own root
CreateScopeOwnRoot(p) ==
    /\ p <= nEngines
    /\ LET s == nEngines + 1 IN
          /\ nEngines' = s
          /\ root' = [root EXCEPT ![s] = s]
          /\ parent' = [parent EXCEPT ![s] = p]
          /\ registrations' = [registrations EXCEPT ![s] = registrations[p]]
          /\ scopedCache' = [scopedCache EXCEPT ![s] = EmptyCache]
    /\ UNCHANGED << pkg, containerRegs, built, singletonCache, resolutionStack, mu,
                    heap, threadVars, ghostVars >>

\* CreateScope with the scoped cache of p handed to the new scope
CreateScopeKeepScoped(p) ==
    /\ p <= nEngines
    /\ LET s == nEngines + 1 IN
          /\ nEngines' = s
          /\ root' = [root EXCEPT ![s] = root[p]]
          /\ parent' = [parent EXCEPT ![s] = p]
          /\ registrations' = [registrations EXCEPT ![s] = registrations[p]]
          /\ scopedCache' = [scopedCache EXCEPT ![s] = scopedCache[p]]
    /\ UNCHANGED << pkg, containerRegs, built, singletonCache, resolutionStack, mu,
                    heap, threadVars, ghostVars >>

\* CreateScope with the registrations read from the Container again
CreateScopeFromContainer(p) ==
    /\ p <= nEngines
    /\ LET s == nEngines + 1 IN
          /\ nEngines' = s
          /\ root' = [root EXCEPT ![s] = root[p]]
          /\ parent' = [parent EXCEPT ![s] = p]
          /\ registrations' = [registrations EXCEPT ![s] = containerRegs]
          /\ scopedCache' = [scopedCache EXCEPT ![s] = EmptyCache]
    /\ UNCHANGED << pkg, containerRegs, built, singletonCache, resolutionStack, mu,
                    heap, threadVars, ghostVars >>

\* the scope made is the next engine; it reaches the singleton cache
\* through its root
CreateScope(p) ==
    /\ p <= nEngines
    /\ LET s == nEngines + 1 IN
          /\ nEngines' = s
          /\ root' = [root EXCEPT ![s] = root[p]]
          /\ parent' = [parent EXCEPT ![s] = p]
          /\ registrations' = [registrations EXCEPT ![s] = registrations[p]]
          /\ scopedCache' = [scopedCache EXCEPT ![s] = EmptyCache]
    /\ UNCHANGED << pkg, containerRegs, built, singletonCache, resolutionStack, mu,
                    heap, threadVars, ghostVars >>

\* ---------------------------------------------------------------- frames
\* One activation of GetService or resolveService on a thread's call stack.
\*   typ  the contract asked for          reg  index of the registration found
\*   inst the instance being produced     fi   the field whose resolution is awaited
\*   res  what the last callee returned
\*   wrote  (in the frame of the top-level call) the call has changed a cache
Frame(fn, st, typ) ==
    [fn |-> fn, st |-> st, typ |-> typ, reg |-> 0, inst |-> Nil, fi |-> 0, res |-> NoRes,
     wrote |-> FALSE]

Top(t) == frames[t][Len(frames[t])]

\* a callee returns res: its frame is popped and the caller sees the result
Deliver(fs, res) ==
    LET n == Len(fs) - 1 IN
    [i \in 1..n |->
        IF i = n
        THEN [fs[i] EXCEPT !.res = res, !.st = IF fs[i].st = "call" THEN "ret" ELSE fs[i].st]
        ELSE fs[i]]

\* the scan run from the front: the first registration of the type
FindRegistrationFirst(regs, serviceType) ==
    LET S == {i \in 1..Len(regs) : regs[i].ServiceType = serviceType} IN
    IF S = {} THEN 0 ELSE CHOOSE i \in S : \A j \in S : i <= j

\* the scan stopped one short, "i > 0": the first registration is not seen
FindRegistrationSkipFirst(regs, serviceType) ==
    LET S == {i \in 2..Len(regs) : regs[i].ServiceType = serviceType} IN
    IF S = {} THEN 0 ELSE CHOOSE i \in S : \A j \in S : j <= i

\* resolveService's scan: for i := len(p.registrations) - 1; i >= 0; i--
\* (0 when no registration has the type)
FindRegistration(regs, serviceType) ==
    LET S == {i \in 1..Len(regs) : regs[i].ServiceType = serviceType} IN
    IF S = {} THEN 0 ELSE CHOOSE i \in S : \A j \in S : j <= i

\* the cycle check looking at the last contract pushed only
OnStackTop(stack, serviceType) ==
    Len(stack) > 0 /\ stack[Len(stack)] = serviceType

\* resolveService's cycle check: for _, t := range p.resolutionStack
OnStack(stack, serviceType) == \E i \in 1..Len(stack) : stack[i] = serviceType

\* the fields injectDependencies looks at in an object
InjectFields(obj) ==
    IF obj.how \in {"blueprint", "instance"} THEN StructFields(obj.typ) ELSE << >>

\* injectDependencies' loop: the first field from index from on that is
\* settable and of interface kind (0 when there is none)
NextInjectable(fields, from) ==
    LET S == {i \in from..Len(fields) :
                 fields[i].exported /\ fields[i].kind = "Interface"} IN
    IF S = {} THEN 0 ELSE CHOOSE i \in S : \A j \in S : i <= j

\* injectDependencies' test before field.Set:
\*   package syringe: err == nil && service != nil      package main: err == nil
FieldIsSet(build, res) ==
    IF build = "syringe" THEN res.err = NoErr /\ res.val # Nil ELSE res.err = NoErr

\* the nested call injectDependencies makes for a field:
\*   package syringe: sp.GetService          package main: p.resolveService
InjectCall(build, typ) ==
    IF build = "syringe" THEN Frame("GetService", "lock", typ)
    ELSE Frame("resolveService", "enter", typ)

\* the heap after the result a callee returned for field fi is stored
StoreField(h, build, inst, fi, res) ==
    IF ~res.set THEN h
    ELSE IF FieldIsSet(build, res)
    THEN [h EXCEPT ![inst].fields[fi] = res.val, ![inst].tried[fi] = res.err.kind]
    ELSE [h EXCEPT ![inst].tried[fi] = res.err.kind]

\* ------------------------------------------------------------ GetService
\* a goroutine calls p.GetService(serviceType) and reaches p.mu.Lock()
GetService(t, e, serviceType) ==
    /\ e <= nEngines
    /\ frames[t] = << >>
    /\ frames' = [frames EXCEPT ![t] = << Frame("GetService", "lock", serviceType) >>]
    /\ eng' = [eng EXCEPT ![t] = e]
    /\ callNo' = [callNo EXCEPT ![t] = calls + 1]
    /\ calls' = calls + 1
    /\ UNCHANGED << pkg, containerRegs, built, engineVars, cacheVars,
                    resolutionStack, mu, heap, ghostVars >>

\* GetService going on without waiting for p.mu to be free
LockShared(t) ==
    /\ frames[t] # << >>
    /\ Top(t).fn = "GetService"
    /\ Top(t).st = "lock"
    /\ mu' = [mu EXCEPT ![eng[t]] = t]
    /\ resolutionStack' = [resolutionStack EXCEPT ![eng[t]] = << >>]
    /\ frames' = [frames EXCEPT ![t] =
           Append([frames[t] EXCEPT ![Len(frames[t])].st = "call"],
                  Frame("resolveService", "enter", Top(t).typ))]
    /\ UNCHANGED << pkg, containerRegs, built, engineVars, cacheVars, heap, eng,
                    callNo, calls, ghostVars >>

\* p.mu.Lock() returns; the resolution stack is reset and resolveService called
Lock(t) ==
    /\ frames[t] # << >>
    /\ Top(t).fn = "GetService"
    /\ Top(t).st = "lock"
    /\ mu[eng[t]] = 0
    /\ mu' = [mu EXCEPT ![eng[t]] = t]
    /\ resolutionStack' = [resolutionStack EXCEPT ![eng[t]] = << >>]
    /\ frames' = [frames EXCEPT ![t] =
           Append([frames[t] EXCEPT ![Len(frames[t])].st = "call"],
                  Frame("resolveService", "enter", Top(t).typ))]
    /\ UNCHANGED << pkg, containerRegs, built, engineVars, cacheVars, heap, eng,
                    callNo, calls, ghostVars >>

\* injectDependencies returning the error of the field's resolution
InjectionErrorStrict(res) == res.err

\* injectDependencies returning the error of a field that was not found
InjectionErrorNotFound(res) ==
    IF res.err.kind = "ServiceNotFound" THEN res.err ELSE NoErr

\* what injectDependencies returns to createInstance after the resolution of
\* a field returned res: always nil ("return nil", the error is dropped)
InjectionError(res) == NoErr

\* the cache write with Scoped instances put in the singleton cache as well
WriteSingletonAny(cache, rootOf, lifetime, serviceType, instance) ==
    IF lifetime # "Transient" THEN [cache EXCEPT ![rootOf][serviceType] = instance]
    ELSE cache

\* resolveService's cache write, "switch registration.Lifetime": the
\* singleton cache of the root and the scoped cache of the engine afterwards
WriteSingleton(cache, rootOf, lifetime, serviceType, instance) ==
    IF lifetime = "Singleton" THEN [cache EXCEPT ![rootOf][serviceType] = instance]
    ELSE cache

\* the cache write with every lifetime but Singleton kept in the scoped cache
WriteScopedTransient(cache, e, lifetime, serviceType, instance) ==
    IF lifetime # "Singleton" THEN [cache EXCEPT ![e][serviceType] = instance]
    ELSE cache

WriteScoped(cache, e, lifetime, serviceType, instance) ==
    IF lifetime = "Scoped" THEN [cache EXCEPT ![e][serviceType] = instance]
    ELSE cache

\* -------------------------------------------------------- resolveService
\* Where the head of resolveService ends for a request of serviceType on
\* engine e: an early return ("cycle", "singletonHit", "scopedHit",
\* "notFound", "invalid", "badFactory", "notStruct") or a production strategy
\* ("instance", "factory", "blueprint").
Dispatch(e, serviceType) ==
    LET i == FindRegistration(registrations[e], serviceType) IN
    IF OnStack(resolutionStack[e], serviceType) THEN "cycle"
    ELSE IF singletonCache[root[e]][serviceType] # NoEntry THEN "singletonHit"
    ELSE IF scopedCache[e][serviceType] # NoEntry THEN "scopedHit"
    ELSE IF i = 0 THEN "notFound"
    ELSE IF registrations[e][i].Instance # Nil THEN "instance"
    ELSE IF registrations[e][i].Factory # "nil"
         THEN (IF registrations[e][i].Factory = "ok" THEN "factory" ELSE "badFactory")
    ELSE IF registrations[e][i].Implementation # "nil"
         THEN (IF registrations[e][i].Implementation = "ptrStruct"
               THEN "blueprint" ELSE "notStruct")
    ELSE "invalid"

\* the error of each early return.  callFactory returns the factory's own
\* error as it is, and createInstance names the implementation type, not the
\* contract; neither of the two and not the error for a factory of another
\* shape wraps one of the package's error values.
DispatchErr(d, stack, serviceType) ==
    CASE d = "cycle"      -> Err("CircularDependency", serviceType, Append(stack, serviceType))
      [] d = "notFound"   -> Err("ServiceNotFound", serviceType, << >>)
      [] d = "invalid"    -> Err("InvalidServiceType", serviceType, << >>)
      [] d = "badFactory" -> Err("InvalidFactory", serviceType, << >>)
      [] d = "notStruct"  -> Err("NotPtrStruct", "-", << >>)
      [] d = "factoryErr" -> Err("Factory", "-", << >>)
      [] OTHER            -> NoErr

\* The head of resolveService: cycle check, push, cache probe, lookup and
\* dispatch, up to the instance the strategy produces.  fails is the outcome
\* of the factory, when one is called.
resolveService(t, fails) ==
    /\ frames[t] # << >>
    /\ Top(t).fn = "resolveService"
    /\ Top(t).st = "enter"
    /\ LET e == eng[t]
           typ == Top(t).typ
           d0 == Dispatch(e, typ)
           d == IF d0 = "factory" /\ fails THEN "factoryErr" ELSE d0
           i == FindRegistration(registrations[e], typ)
           n == Len(frames[t])
           new == NewId(t)
       IN
       IF d \in {"instance", "factory", "blueprint"}
       THEN \* the strategy yields an instance; the frame goes on to cache it
            /\ resolutionStack' = [resolutionStack EXCEPT ![e] = Append(@, typ)]
            /\ heap' = CASE d = "factory" ->
                                (new :> Object(typ, "factory", i, e, << >>)) @@ heap
                         [] d = "blueprint" ->
                                (new :> Object(typ, "blueprint", i, e, ZeroFields(typ))) @@ heap
                         [] OTHER -> heap
            /\ frames' = [frames EXCEPT ![t][n] =
                   [@ EXCEPT !.st = "body", !.reg = i,
                             !.inst = IF d = "instance"
                                      THEN registrations[e][i].Instance ELSE new]]
            /\ runs' = IF d = "instance" THEN runs ELSE [runs EXCEPT ![typ] = @ + 1]
       ELSE \* an early return: a cache hit or an error
            /\ LET res == IF d = "singletonHit" THEN Res(singletonCache[root[e]][typ], NoErr)
                          ELSE IF d = "scopedHit" THEN Res(scopedCache[e][typ], NoErr)
                          ELSE Res(Nil, DispatchErr(d, resolutionStack[e], typ))
               IN frames' = [frames EXCEPT ![t] = Deliver(@, res)]
            /\ runs' = IF d = "factoryErr" THEN [runs EXCEPT ![typ] = @ + 1] ELSE runs
            /\ UNCHANGED << resolutionStack, heap >>
    /\ UNCHANGED << pkg, containerRegs, built, engineVars, cacheVars, mu, eng,
                    callNo, calls, hist >>

\* The rest of resolveService once the strategy has yielded an instance:
\* for a blueprint, one round of injectDependencies' loop (store what the
\* last nested call returned, go to the next injectable field and resolve
\* it); when no field is left, the cache write, the deferred pop and the
\* return.  createInstance returns the error of injectDependencies, if any.
injectDependencies(t) ==
    /\ frames[t] # << >>
    /\ Top(t).fn = "resolveService"
    /\ Top(t).st = "body"
    /\ LET e == eng[t]
           f == Top(t)
           n == Len(frames[t])
           fields == IF heap[f.inst].how = "blueprint"
                     THEN StructFields(heap[f.inst].typ) ELSE << >>
           j == NextInjectable(fields, f.fi + 1)
           lifetime == registrations[e][f.reg].Lifetime
           ierr == IF f.res.set THEN InjectionError(f.res) ELSE NoErr
       IN
       /\ heap' = StoreField(heap, pkg, f.inst, f.fi, f.res)
       /\ IF ierr # NoErr
          THEN /\ resolutionStack' = [resolutionStack EXCEPT ![e] =
                      SubSeq(@, 1, Len(@) - 1)]
               /\ frames' = [frames EXCEPT ![t] = Deliver(@, Res(Nil, ierr))]
               /\ UNCHANGED << cacheVars >>
          ELSE IF j # 0
          THEN /\ frames' = [frames EXCEPT ![t] =
                      Append([@ EXCEPT ![n] = [f EXCEPT !.fi = j, !.res = NoRes]],
                             InjectCall(pkg, fields[j].typ))]
               /\ UNCHANGED << cacheVars, resolutionStack >>
          ELSE /\ singletonCache' =
                      WriteSingleton(singletonCache, root[e], lifetime, f.typ, f.inst)
               /\ scopedCache' = WriteScoped(scopedCache, e, lifetime, f.typ, f.inst)
               /\ resolutionStack' = [resolutionStack EXCEPT ![e] =
                      SubSeq(@, 1, Len(@) - 1)]
               /\ frames' = [frames EXCEPT ![t] =
                      [Deliver(@, Res(f.inst, NoErr)) EXCEPT ![1].wrote =
                          \/ @
                          \/ singletonCache' # singletonCache
                          \/ scopedCache' # scopedCache]]
    /\ UNCHANGED << pkg, containerRegs, built, engineVars, mu, eng, callNo, calls,
                    hist, runs >>

\* -------------------------------------------------- GetService's return
\* After resolveService has returned to GetService.  Package main returns
\* the result.  Package syringe returns an error at once and otherwise runs
\* injectDependencies on a non-nil instance before it returns.  The return
\* runs the deferred p.mu.Unlock().
GetServiceReturn(t) ==
    /\ frames[t] # << >>
    /\ Top(t).fn = "GetService"
    /\ Top(t).st \in {"ret", "post"}
    /\ LET e == eng[t]
           f == Top(t)
           n == Len(frames[t])
           inst == IF f.st = "ret" THEN f.res.val ELSE f.inst
           inject == pkg = "syringe" /\ (f.st = "post" \/ (f.res.err = NoErr /\ inst # Nil))
           fields == IF inject THEN InjectFields(heap[inst]) ELSE << >>
           j == IF inject
                THEN NextInjectable(fields, IF f.st = "ret" THEN 1 ELSE f.fi + 1)
                ELSE 0
           res == IF f.st = "ret" THEN f.res ELSE Res(inst, NoErr)
       IN
       /\ heap' = IF f.st = "post" THEN StoreField(heap, pkg, inst, f.fi, f.res) ELSE heap
       /\ IF j # 0
          THEN /\ frames' = [frames EXCEPT ![t] =
                      Append([@ EXCEPT ![n] = [f EXCEPT !.st = "post", !.inst = inst,
                                                        !.fi = j, !.res = NoRes]],
                             InjectCall(pkg, fields[j].typ))]
               /\ UNCHANGED << mu, hist >>
          ELSE /\ mu' = [mu EXCEPT ![e] = 0]
               /\ frames' = [frames EXCEPT ![t] = IF n = 1 THEN << >> ELSE Deliver(@, res)]
               /\ hist' = IF n = 1
                          THEN hist \cup {[n |-> callNo[t], t |-> t, eng |-> e,
                                           typ |-> f.typ, val |-> res.val,
                                           err |-> res.err,
                                           kept |-> ~f.wrote]}
                          ELSE hist
    /\ UNCHANGED << pkg, containerRegs, built, engineVars, cacheVars, resolutionStack,
                    eng, callNo, calls, runs >>

\* ---------------------------------------------------------- specification
Init ==
    /\ pkg \in {"syringe", "main"}
    /\ containerRegs = << >>
    /\ built = FALSE
    /\ nEngines = 0
    /\ root = [e \in Engines |-> 0]
    /\ parent = [e \in Engines |-> 0]
    /\ registrations = [e \in Engines |-> << >>]
    /\ singletonCache = [e \in Engines |-> EmptyCache]
    /\ scopedCache = [e \in Engines |-> EmptyCache]
    /\ resolutionStack = [e \in Engines |-> << >>]
    /\ mu = [e \in Engines |-> 0]
    /\ heap = [i \in {} |-> Nil]
    /\ frames = [t \in Threads |-> << >>]
    /\ eng = [t \in Threads |-> 0]
    /\ callNo = [t \in Threads |-> 0]
    /\ calls = 0
    /\ hist = {}
    /\ runs = [c \in Contracts |-> 0]

\* the Container's registration methods, with arguments from the given sets
Register(impls, facs) ==
    \/ \E c \in Contracts, impl \in impls : AddSingleton(c, impl)
    \/ \E c \in Contracts, f \in facs : AddSingletonByFactory(c, f)
    \/ \E c \in Contracts : AddSingletonInstance(c)
    \/ \E c \in Contracts, impl \in impls : AddScoped(c, impl)
    \/ \E c \in Contracts, f \in facs : AddScopedByFactory(c, f)
    \/ \E c \in Contracts, impl \in impls : AddTransient(c, impl)
    \/ \E c \in Contracts, f \in facs : AddTransientByFactory(c, f)

Idle == \A u \in Threads : frames[u] = << >>

Step(t) ==
    \/ Lock(t)
    \/ \E fails \in BOOLEAN : resolveService(t, fails)
    \/ injectDependencies(t)
    \/ GetServiceReturn(t)

\* Spec: a Container is filled and built, one scope is created, and calls
\* are made one after the other on one goroutine.
Next ==
    \/ /\ ~built
       /\ Len(containerRegs) < MaxRegs
       /\ Register({"nil", "ptrStruct"}, {"ok"})
    \/ /\ ~built
       /\ BuildServiceProvider
    \/ \E p \in Engines :
          /\ built /\ Idle
          /\ nEngines < 1 + MaxScopes
          /\ CreateScope(p)
    \/ \E e \in Engines, c \in Contracts :
          /\ built /\ Idle
          /\ calls < MaxCalls
          /\ GetService(1, e, c)
    \/ Step(1)

Spec == Init /\ [][Next]_vars

\* ErrSpec: as Spec, with every implementation and every factory a caller
\* can register: values that are no pointer to struct and functions of
\* another shape included.
ErrNext ==
    \/ /\ ~built
       /\ Len(containerRegs) < MaxRegs
       /\ Register(Implementations, Factories)
    \/ /\ ~built
       /\ BuildServiceProvider
    \/ \E p \in Engines :
          /\ built /\ Idle
          /\ nEngines < 1 + MaxScopes
          /\ CreateScope(p)
    \/ \E e \in Engines, c \in Contracts :
          /\ built /\ Idle
          /\ calls < MaxCalls
          /\ GetService(1, e, c)
    \/ Step(1)

ErrSpec == Init /\ [][ErrNext]_vars

\* LateSpec: as Spec, with the Container still in use after the provider was
\* built: registrations are added at any moment, also while a call runs.
LateNext ==
    \/ /\ Len(containerRegs) < MaxRegs
       /\ Register({"ptrStruct"}, {"ok"})
    \/ /\ ~built
       /\ BuildServiceProvider
    \/ \E p \in Engines :
          /\ built /\ Idle
          /\ nEngines < 1 + MaxScopes
          /\ CreateScope(p)
    \/ \E e \in Engines, c \in Contracts :
          /\ built /\ Idle
          /\ calls < MaxCalls
          /\ GetService(1, e, c)
    \/ Step(1)

LateSpec == Init /\ [][LateNext]_vars

\* TreeSpec: the blueprints implA and implB are registered, and implC or a
\* factory for C, each with any lifetime, and the provider is built; scopes
\* are created from the root and from scopes, and calls are made one after
\* the other.
Chain(la, lb, lc, fc) ==
    << DependencyRegistration("A", "ptrStruct", "nil", Nil, la),
       DependencyRegistration("B", "ptrStruct", "nil", Nil, lb),
       IF fc THEN DependencyRegistration("C", "nil", "ok", Nil, lc)
       ELSE DependencyRegistration("C", "ptrStruct", "nil", Nil, lc) >>

TreeInit ==
    /\ pkg \in {"syringe", "main"}
    /\ \E la \in Lifetimes, lb \in Lifetimes, lc \in Lifetimes, fc \in BOOLEAN :
          /\ containerRegs = Chain(la, lb, lc, fc)
          /\ registrations = [e \in Engines |->
                                 IF e = 1 THEN Chain(la, lb, lc, fc) ELSE << >>]
    /\ built = TRUE
    /\ nEngines = 1
    /\ root = [e \in Engines |-> IF e = 1 THEN 1 ELSE 0]
    /\ parent = [e \in Engines |-> 0]
    /\ singletonCache = [e \in Engines |-> EmptyCache]
    /\ scopedCache = [e \in Engines |-> EmptyCache]
    /\ resolutionStack = [e \in Engines |-> << >>]
    /\ mu = [e \in Engines |-> 0]
    /\ heap = [i \in {} |-> Nil]
    /\ frames = [t \in Threads |-> << >>]
    /\ eng = [t \in Threads |-> 0]
    /\ callNo = [t \in Threads |-> 0]
    /\ calls = 0
    /\ hist = {}
    /\ runs = [c \in Contracts |-> 0]

TreeNext ==
    \/ \E p \in Engines :
          /\ Idle
          /\ nEngines < MaxEngines
          /\ CreateScope(p)
    \/ \E e \in Engines, c \in Contracts :
          /\ Idle
          /\ calls < MaxCalls
          /\ GetService(1, e, c)
    \/ Step(1)

TreeSpec == TreeInit /\ [][TreeNext]_vars

\* ConcSpec: as TreeSpec with one scope, the calls made by goroutines that
\* run concurrently.
ConcNext ==
    \/ \E p \in Engines :
          /\ nEngines < 1 + MaxScopes
          /\ CreateScope(p)
    \/ \E t \in Threads, e \in Engines, c \in Contracts :
          /\ calls < MaxCalls
          /\ GetService(t, e, c)
    \/ \E t \in Threads : Step(t)

ConcSpec == TreeInit /\ [][ConcNext]_vars

\* ------------------------------------------------------------ the claims
\* the authoritative descriptor of a contract: the last one registered
LastReg(c) ==
    IF \E i \in 1..Len(containerRegs) : containerRegs[i].ServiceType = c
    THEN CHOOSE i \in 1..Len(containerRegs) :
            /\ containerRegs[i].ServiceType = c
            /\ \A j \in (i + 1)..Len(containerRegs) : containerRegs[j].ServiceType # c
    ELSE 0

Registered(c) == LastReg(c) # 0

HasLifetime(c, l) == Registered(c) /\ containerRegs[LastReg(c)].Lifetime = l

\* the strategy of a descriptor: the instance, else the factory, else the
\* blueprint, else none
StrategyOf(r) ==
    IF r.Instance # Nil THEN "instance"
    ELSE IF r.Factory # "nil" THEN "factory"
    ELSE IF r.Implementation # "nil" THEN "blueprint"
    ELSE "none"

\* the top-level calls that returned an instance
OkCalls == {h \in hist : h.err = NoErr}

\* the objects a factory or a blueprint of contract c has produced
Produced(c) == {o \in DOMAIN heap : heap[o].typ = c /\ heap[o].how \in {"factory", "blueprint"}}

\* the fields, of any object, that hold o
FieldsHolding(o) ==
    UNION {{<< i, k >> : k \in {k \in DOMAIN heap[i].fields : heap[i].fields[k] = o}} :
             i \in DOMAIN heap}

\* C1 as stated: two successful resolves of a Singleton contract return the
\* same instance on any engines of the tree, and the factory or blueprint of
\* the contract is run at most once.
C1_SingletonRunOnce ==
    \A c \in Contracts : HasLifetime(c, "Singleton") =>
        /\ \A h1, h2 \in OkCalls : h1.typ = c /\ h2.typ = c => h1.val = h2.val
        /\ runs[c] <= 1

\* C1 as amended: two successful resolves of a Singleton contract return the
\* same instance on any engines of the tree, and the factory or blueprint of
\* the contract produces an instance at most once (a factory that reports an
\* error is run again by the next resolve).
C1_SingletonShared ==
    \A c \in Contracts : HasLifetime(c, "Singleton") =>
        /\ \A h1, h2 \in OkCalls : h1.typ = c /\ h2.typ = c => h1.val = h2.val
        /\ Cardinality(Produced(c)) <= 1

C1_Witness ==
    \E h1, h2 \in OkCalls :
        /\ h1.n # h2.n
        /\ h1.eng # h2.eng
        /\ h1.typ = h2.typ
        /\ HasLifetime(h1.typ, "Singleton")
        /\ h1.val \in Produced(h1.typ)

\* an engine no call has been made on
Untouched(e) ==
    /\ \A h \in hist : h.eng # e
    /\ \A t \in Threads : frames[t] = << >> \/ eng[t] # e

\* C2: two successful resolves of a Scoped contract return the same instance
\* when made on the same engine and distinct instances when made on two
\* engines of the tree, and a scope starts with an empty scoped cache.
C2_ScopedPerEngine ==
    /\ \A h1, h2 \in OkCalls :
          h1.typ = h2.typ /\ HasLifetime(h1.typ, "Scoped") =>
             (h1.val = h2.val <=> h1.eng = h2.eng)
    /\ \A e \in 1..nEngines : Untouched(e) => scopedCache[e] = EmptyCache

\* two sibling scopes have resolved the same Scoped contract
C2_Witness ==
    \E h1, h2 \in OkCalls :
        /\ h1.typ = h2.typ
        /\ HasLifetime(h1.typ, "Scoped")
        /\ h1.eng # h2.eng
        /\ h1.eng # 1 /\ h2.eng # 1
        /\ parent[h1.eng] = parent[h2.eng]
        /\ h1.val # h2.val

TransientBlueprint(c) ==
    /\ HasLifetime(c, "Transient")
    /\ StrategyOf(containerRegs[LastReg(c)]) = "blueprint"
    /\ containerRegs[LastReg(c)].Implementation = "ptrStruct"

\* C3: every instance a resolve of a Transient blueprint contract yields, at
\* top level or for a field, is yielded by that one resolve only (it is held
\* by at most one result or field), and no cache has an entry for the contract.
C3_TransientFresh ==
    \A c \in Contracts : TransientBlueprint(c) =>
        /\ \A o \in DOMAIN heap : heap[o].typ = c =>
              Cardinality({h \in hist : h.val = o}) + Cardinality(FieldsHolding(o)) <= 1
        /\ \A e \in Engines : singletonCache[e][c] = NoEntry /\ scopedCache[e][c] = NoEntry

\* a Transient blueprint contract was resolved for a field and at top level
C3_Witness ==
    \E h \in OkCalls : \E o \in DOMAIN heap :
        /\ TransientBlueprint(h.typ)
        /\ heap[o].typ = h.typ
        /\ o # h.val
        /\ FieldsHolding(o) # {}

\* C4: only the last registered descriptor of a contract is used: every
\* instance produced or returned for the contract comes from it, and a cache
\* has an entry for the contract only if it is the cache of its lifetime.
C4_LastRegistrationWins ==
    /\ \A o \in DOMAIN heap :
          heap[o].how \in {"factory", "blueprint"} => heap[o].reg = LastReg(heap[o].typ)
    /\ \A h \in OkCalls :
          /\ heap[h.val].typ = h.typ
          /\ heap[h.val].reg = LastReg(h.typ)
          /\ heap[h.val].how = StrategyOf(containerRegs[LastReg(h.typ)])
    /\ \A e \in Engines, c \in Contracts :
          /\ singletonCache[e][c] # NoEntry => HasLifetime(c, "Singleton")
          /\ scopedCache[e][c] # NoEntry => HasLifetime(c, "Scoped")

\* a contract registered twice, with two strategies and two lifetimes, was
\* resolved
C4_Witness ==
    \E h \in OkCalls :
        /\ Len(containerRegs) = 2
        /\ containerRegs[1].ServiceType = h.typ
        /\ containerRegs[2].ServiceType = h.typ
        /\ StrategyOf(containerRegs[1]) \notin {"none", StrategyOf(containerRegs[2])}
        /\ containerRegs[1].Lifetime # containerRegs[2].Lifetime

\* the contracts the blueprint of c asks for through its injectable fields
Deps(c) ==
    IF Registered(c) /\ StrategyOf(containerRegs[LastReg(c)]) = "blueprint"
                     /\ containerRegs[LastReg(c)].Implementation = "ptrStruct"
    THEN {StructFields(c)[k].typ :
             k \in {k \in 1..Len(StructFields(c)) :
                       StructFields(c)[k].exported /\ StructFields(c)[k].kind = "Interface"}}
    ELSE {}

RECURSIVE ReachIn(_, _)
\* the contracts reached from the set S in at most n further dependency steps
ReachIn(S, n) == IF n = 0 THEN S ELSE ReachIn(S \cup UNION {Deps(c) : c \in S}, n - 1)

\* the contracts reached from c in one dependency step or more
Reach(c) == ReachIn(Deps(c), Cardinality(Contracts))

\* the dependency graph reached from c has a cycle
CycleFrom(c) == \E d \in Reach(c) \cup {c} : d \in Reach(d)

\* C5: a top-level resolve of a contract whose dependency graph has a cycle
\* returns a CircularDependency error and no instance; for the blueprints
\* A -> B -> C -> A the resolve of A carries the path A, B, C, A.
C5_CycleRejected ==
    \A h \in hist :
        /\ CycleFrom(h.typ) => h.err.kind = "CircularDependency" /\ h.val = Nil
        /\ h.typ = "A" /\ Deps("A") = {"B", "C"} /\ Deps("B") = {"C"} /\ Deps("C") = {"A"}
              => h.err.path = << "A", "B", "C", "A" >>

\* C6: a top-level resolve of a contract with no descriptor returns
\* ServiceNotFound, one of a contract whose last descriptor has no instance,
\* no factory and no blueprint returns InvalidServiceType; neither returns
\* an instance.
C6_NotFoundOrInvalid ==
    \A h \in hist :
        /\ ~Registered(h.typ) =>
              h.err.kind = "ServiceNotFound" /\ h.err.typ = h.typ /\ h.val = Nil
        /\ Registered(h.typ) /\ StrategyOf(containerRegs[LastReg(h.typ)]) = "none" =>
              h.err.kind = "InvalidServiceType" /\ h.err.typ = h.typ /\ h.val = Nil

\* both kinds of call have returned
C6_Witness ==
    \E h1, h2 \in hist :
        /\ ~Registered(h1.typ)
        /\ Registered(h2.typ)
        /\ StrategyOf(containerRegs[LastReg(h2.typ)]) = "none"

\* C7: with the calls made concurrently, on one engine or on engines that
\* share a root, all successful resolves of a Singleton contract return the
\* same instance, the contract is instantiated at most once and the singleton
\* cache holds no other value than the one returned.
C7_SingletonOnceConcurrent ==
    \A c \in Contracts : HasLifetime(c, "Singleton") =>
        /\ \A h1, h2 \in OkCalls : h1.typ = c /\ h2.typ = c => h1.val = h2.val
        /\ Cardinality(Produced(c)) <= 1
        /\ \A h \in OkCalls : h.typ = c => singletonCache[1][c] = h.val

\* thread t is past p.mu.Lock() in a top-level call
InFlight(t) == frames[t] # << >> /\ frames[t][1].st # "lock"

\* the contracts thread t has pushed and not popped yet
Pushed(t) ==
    LET fs == SelectSeq(frames[t], LAMBDA f : f.fn = "resolveService" /\ f.st = "body")
    IN [i \in 1..Len(fs) |-> fs[i].typ]

\* C8: at most one top-level call is in flight on an engine; it holds the
\* engine's lock from the reset of the resolution path to its return, and the
\* resolution path is what this call alone has pushed.
C8_OneCallPerEngine ==
    \A e \in Engines :
        LET running == {t \in Threads : InFlight(t) /\ eng[t] = e} IN
        /\ Cardinality(running) <= 1
        /\ \A t \in running : mu[e] = t /\ resolutionStack[e] = Pushed(t)
        /\ running = {} => mu[e] = 0 /\ resolutionStack[e] = << >>

\* a call is two levels deep in field injection while another call on the
\* same engine waits for the lock
C8_Witness ==
    \E t1, t2 \in Threads :
        /\ t1 # t2
        /\ eng[t1] = eng[t2]
        /\ InFlight(t1)
        /\ Len(Pushed(t1)) >= 2
        /\ frames[t2] # << >>
        /\ frames[t2][1].st = "lock"

\* C9: no call waits at the public entry point for the lock it holds itself.
C9_NoSelfDeadlock ==
    \A t \in Threads :
        frames[t] # << >> /\ Top(t).fn = "GetService" /\ Top(t).st = "lock"
           => mu[eng[t]] # t

\* object o is the instance of a resolveService that has not returned
UnderConstruction(o) ==
    \E t \in Threads : \E k \in 1..Len(frames[t]) :
        /\ frames[t][k].fn = "resolveService"
        /\ frames[t][k].st = "body"
        /\ frames[t][k].inst = o

Injectable(c, k) == StructFields(c)[k].exported /\ StructFields(c)[k].kind = "Interface"

\* C10: a field whose resolution failed is left unset, every injectable
\* field of a finished blueprint instance has been tried, and a top-level
\* resolve fails only with the error of the requested contract itself: a
\* resolve of a blueprint contract succeeds whatever its fields' resolutions
\* returned.
C10_BestEffortInjection ==
    /\ \A o \in DOMAIN heap : heap[o].how = "blueprint" =>
          \A k \in 1..Len(heap[o].fields) :
             /\ heap[o].tried[k] \notin {"untried", "nil"} => heap[o].fields[k] = Nil
             /\ ~UnderConstruction(o) /\ Injectable(heap[o].typ, k)
                   => heap[o].tried[k] # "untried"
    /\ \A h \in hist :
          /\ h.err # NoErr =>
                /\ h.err.typ \in {h.typ, "-"}
                /\ h.err.kind # "CircularDependency"
                /\ h.val = Nil
          /\ Deps(h.typ) # {} => h.err = NoErr

\* a resolve returned a blueprint instance with a field whose resolution
\* failed and a later field that was set
C10_Witness ==
    \E h \in OkCalls : \E k1, k2 \in 1..Len(heap[h.val].fields) :
        /\ heap[h.val].how = "blueprint"
        /\ k1 < k2
        /\ heap[h.val].tried[k1] \notin {"untried", "nil"}
        /\ heap[h.val].fields[k2] # Nil

\* a resolve of contract c has a usable production strategy to run
Resolvable(c) ==
    /\ Registered(c)
    /\ \/ StrategyOf(containerRegs[LastReg(c)]) = "instance"
       \/ /\ StrategyOf(containerRegs[LastReg(c)]) = "factory"
          /\ containerRegs[LastReg(c)].Factory = "ok"
       \/ /\ StrategyOf(containerRegs[LastReg(c)]) = "blueprint"
          /\ containerRegs[LastReg(c)].Implementation = "ptrStruct"

\* value v is what a resolve of contract d on engine e yields under the
\* lifetime of d: the cached instance for Singleton and Scoped, an instance
\* made on e from the descriptor of d for Transient
YieldedBy(v, d, e) ==
    LET r == containerRegs[LastReg(d)] IN
    CASE r.Lifetime = "Singleton" -> v = singletonCache[root[e]][d]
      [] r.Lifetime = "Scoped"    -> v = scopedCache[e][d]
      [] OTHER -> /\ v \in DOMAIN heap
                  /\ heap[v].typ = d
                  /\ heap[v].reg = LastReg(d)
                  /\ heap[v].how = "instance" \/ heap[v].eng = e

\* C11: in every blueprint instance whose construction is over, a settable
\* contract-typed field whose contract is resolvable holds the instance a
\* resolve of that contract on the constructing engine yields under its
\* lifetime (a field whose factory reported an error stays unset), and every
\* other field has its default value.
C11_FieldsPopulated ==
    \A o \in DOMAIN heap :
        heap[o].how = "blueprint" /\ ~UnderConstruction(o) =>
            \A k \in 1..Len(heap[o].fields) :
                LET d == StructFields(heap[o].typ)[k].typ IN
                IF ~Injectable(heap[o].typ, k) THEN heap[o].fields[k] = Nil
                ELSE Resolvable(d) =>
                        \/ /\ heap[o].tried[k] = "Factory"
                           /\ heap[o].fields[k] = Nil
                        \/ /\ heap[o].fields[k] # Nil
                           /\ YieldedBy(heap[o].fields[k], d, heap[o].eng)

\* C11 with the fields left out whose contract was on the resolution path
\* when they were resolved
C11_FieldsPopulatedOffPath ==
    \A o \in DOMAIN heap :
        heap[o].how = "blueprint" /\ ~UnderConstruction(o) =>
            \A k \in 1..Len(heap[o].fields) :
                LET d == StructFields(heap[o].typ)[k].typ IN
                IF ~Injectable(heap[o].typ, k) THEN heap[o].fields[k] = Nil
                ELSE Resolvable(d) /\ heap[o].tried[k] # "CircularDependency" =>
                        \/ /\ heap[o].tried[k] = "Factory"
                           /\ heap[o].fields[k] = Nil
                        \/ /\ heap[o].fields[k] # Nil
                           /\ YieldedBy(heap[o].fields[k], d, heap[o].eng)

\* the top-level calls whose requested contract has a descriptor of strategy s
CallsOf(s) ==
    {h \in hist : Registered(h.typ) /\ StrategyOf(containerRegs[LastReg(h.typ)]) = s}

\* C12: a top-level resolve whose factory reported an error returns no
\* instance and an error that carries the factory's error and the identity of
\* the requested contract.
C12_FactoryErrorWrapped ==
    \A h \in CallsOf("factory") :
        h.err.kind = "Factory" => h.val = Nil /\ h.err.typ = h.typ

\* C13: a top-level resolve whose authoritative descriptor holds a factory of
\* another shape returns an InvalidServiceType error and no instance; the
\* factory is not run and no cache gets an entry for the contract.
C13_BadFactoryInvalid ==
    \A h \in CallsOf("factory") :
        containerRegs[LastReg(h.typ)].Factory = "badShape" =>
            /\ h.err.kind = "InvalidServiceType"
            /\ h.val = Nil
            /\ runs[h.typ] = 0
            /\ \A e \in Engines :
                  singletonCache[e][h.typ] = NoEntry /\ scopedCache[e][h.typ] = NoEntry

\* the registrations the provider was built from are the first ones of the
\* Container, and every engine of the tree has them
SameRegistrations ==
    \A e \in 1..nEngines :
        /\ registrations[e] = registrations[1]
        /\ Len(registrations[e]) <= Len(containerRegs)
        /\ registrations[e] = SubSeq(containerRegs, 1, Len(registrations[e]))

\* every call that returned was answered from the registrations of the root
AnsweredFromBuild ==
    \A h \in hist :
        LET i == FindRegistration(registrations[1], h.typ) IN
        /\ i = 0 <=> h.err.kind = "ServiceNotFound"
        /\ h.val # Nil => heap[h.val].reg = i /\ heap[h.val].typ = h.typ

\* C14: once the provider is built no step changes the registrations of an
\* engine that exists, whatever is added to the Container; the root and its
\* scopes have the same registrations, those the Container had at the build,
\* and every call is answered from them.
C14_RegistrationsFixed ==
    /\ [](built => SameRegistrations /\ AnsweredFromBuild)
    /\ [][built => \A e \in 1..nEngines : registrations'[e] = registrations[e]]_vars

\* a call on a scope did not find a contract that was added to the Container
\* after the build
C14_Witness ==
    /\ built
    /\ Len(registrations[1]) = 1
    /\ Len(containerRegs) = 2
    /\ \E h \in hist :
          /\ h.eng = 2
          /\ h.typ = containerRegs[2].ServiceType
          /\ h.typ # containerRegs[1].ServiceType
          /\ h.err.kind = "ServiceNotFound"

\* C15: field injection runs only inside the construction of a blueprint
\* instance: GetService runs none on the instance resolveService returned to
\* it (a cached one, a pre-built one), and no field of a pre-built instance
\* is written or tried.
C15_InjectOnlyFresh ==
    /\ \A t \in Threads : \A k \in 1..Len(frames[t]) :
          frames[t][k].fn = "GetService" => frames[t][k].st # "post"
    /\ \A o \in DOMAIN heap : heap[o].how = "instance" =>
          \A k \in 1..Len(heap[o].fields) :
             heap[o].fields[k] = Nil /\ heap[o].tried[k] = "untried"

NoRepeat(stack) ==
    \A i, j \in 1..Len(stack) : i # j => stack[i] # stack[j]

\* C16: the resolution path of an engine names no contract twice; it is
\* empty when no call runs on the engine, when the top-level resolveService
\* starts and when it has returned to GetService, and in between it lists the
\* contracts of the resolutions that have started and not returned, in order.
C16_PathNoRepeat ==
    \A e \in Engines :
        /\ NoRepeat(resolutionStack[e])
        /\ (\A t \in Threads : ~(InFlight(t) /\ eng[t] = e)) => resolutionStack[e] = << >>
        /\ \A t \in Threads : InFlight(t) /\ eng[t] = e =>
              /\ resolutionStack[e] = Pushed(t)
              /\ Len(frames[t]) = 2 /\ Top(t).st = "enter" => resolutionStack[e] = << >>
              /\ Len(frames[t]) = 1 /\ Top(t).st = "ret" => resolutionStack[e] = << >>

\* the third resolution of a chain was handed the error of the cycle check
C16_Witness ==
    \E t \in Threads :
        /\ InFlight(t)
        /\ Len(resolutionStack[eng[t]]) = 3
        /\ Top(t).fn = "resolveService"
        /\ Top(t).res.set
        /\ Top(t).res.err.kind = "CircularDependency"
        /\ Len(Top(t).res.err.path) = 4

\* C17: an instance in the scoped cache of an engine is not returned by a
\* resolve on another engine of the tree and is in no field of an instance
\* that a resolve on another engine returned.
C17_ScopedNotLeaked ==
    \A e \in 1..nEngines : \A c \in Contracts :
        scopedCache[e][c] # NoEntry =>
            \A h \in OkCalls : h.eng # e =>
                /\ h.val # scopedCache[e][c]
                /\ \A k \in 1..Len(heap[h.val].fields) :
                      heap[h.val].fields[k] # scopedCache[e][c]

\* C18: a top-level resolve that returned an error returned no instance and
\* changed neither the singleton cache nor a scoped cache; every call whose factory reported an error did run the factory.
C18_ErrorKeepsCaches ==
    /\ \A h \in hist : h.err # NoErr => h.kept /\ h.val = Nil
    /\ \A c \in Contracts :
          Cardinality({h \in hist : h.typ = c /\ h.err.kind = "Factory"}) <= runs[c]

\* a resolve returned an error after an earlier one had filled a cache
C18_Witness ==
    \E h1, h2 \in hist :
        /\ h1.n < h2.n
        /\ h1.err = NoErr
        /\ ~h1.kept
        /\ h2.err.kind \in {"Factory", "NotPtrStruct", "InvalidFactory"}

\* C19: the singleton cache of the root has an entry for a contract only if
\* the last descriptor of the contract is Singleton, the scoped cache of an
\* engine only if it is Scoped, and no engine sees a contract in both caches.
C19_CachesAgree ==
    \A e \in 1..nEngines : \A c \in Contracts :
        /\ singletonCache[root[e]][c] # NoEntry => HasLifetime(c, "Singleton")
        /\ scopedCache[e][c] # NoEntry => HasLifetime(c, "Scoped")
        /\ singletonCache[root[e]][c] = NoEntry \/ scopedCache[e][c] = NoEntry

\* a contract registered as Singleton and then as Scoped is in the scoped
\* cache of a scope
C19_Witness ==
    \E c \in Contracts :
        /\ Len(containerRegs) = 2
        /\ containerRegs[1].ServiceType = c /\ containerRegs[1].Lifetime = "Singleton"
        /\ containerRegs[2].ServiceType = c /\ containerRegs[2].Lifetime = "Scoped"
        /\ nEngines = 2
        /\ scopedCache[2][c] # NoEntry
        /\ \E h \in OkCalls : h.typ = c /\ h.eng = 2

\* the next step of thread t is the head of a resolveService: it reads the
\* singleton cache of the root
ReadsSingleton(t) ==
    /\ frames[t] # << >>
    /\ Top(t).fn = "resolveService"
    /\ Top(t).st = "enter"
    /\ ~OnStack(resolutionStack[eng[t]], Top(t).typ)

\* the next step of thread t is the cache write of a resolveService for a
\* Singleton contract
WritesSingleton(t) ==
    /\ frames[t] # << >>
    /\ Top(t).fn = "resolveService"
    /\ Top(t).st = "body"
    /\ registrations[eng[t]][Top(t).reg].Lifetime = "Singleton"
    /\ NextInjectable(IF heap[Top(t).inst].how = "blueprint"
                      THEN StructFields(heap[Top(t).inst].typ) ELSE << >>,
                      Top(t).fi + 1) = 0

\* C20: no write of the singleton cache is ready to run together with a read
\* or a write of it by a call on another engine of the tree: two such calls
\* hold different locks, so nothing orders the two accesses.
C20_NoSingletonRace ==
    \A t1, t2 \in Threads :
        /\ t1 # t2
        /\ WritesSingleton(t1)
        /\ ReadsSingleton(t2) \/ WritesSingleton(t2)
        => ~(eng[t1] # eng[t2] /\ root[eng[t1]] = root[eng[t2]])

====
